---- MODULE Spec2Model ----
(***************************************************************************)
(* Model of the HTTP client facade of src/client/utils/fetchApi.ts:        *)
(* buildUrl, getDefaultHeaders, handleAxiosResponse, handleAxiosError, the *)
(* FetchApi verb operations, upload, batch and api.download.               *)
(*                                                                         *)
(* Texts that are taken apart by the code (endpoints, query strings) are   *)
(* sequences of one-character strings; the origin of the base address is   *)
(* kept as a single token.  Error messages are plain strings.              *)
(***************************************************************************)
EXTENDS Integers, Sequences, FiniteSets, TLC

VARIABLES
    base,       \* API_BASE_URL, fixed when the module is loaded
    authToken,  \* localStorage item 'authToken'
    hasWindow,  \* typeof window !== 'undefined'
    call,       \* the facade call in progress and its promise
    reqs,       \* the member promises of the call and their transport requests
    settleLog,  \* indices of the members of the call, in the order they settled
    saved,      \* file names handed to the browser's save-as by download
    urlIn,      \* arguments of a buildUrl application
    urlOut      \* its result

vars == <<base, authToken, hasWindow, call, reqs, settleLog, saved, urlIn, urlOut>>

(***************************************************************************)
(* Bounds                                                                  *)
(***************************************************************************)
MaxBatch == 2
MaxEndpointLen == 3
MaxParams == 2

(***************************************************************************)
(* Text helpers                                                            *)
(***************************************************************************)
Undefined == "<undefined>"

RECURSIVE Flatten(_)
Flatten(ss) == IF ss = <<>> THEN <<>> ELSE Head(ss) \o Flatten(Tail(ss))

RECURSIVE Split(_, _)
Split(s, sep) ==
    IF \A i \in 1..Len(s) : s[i] # sep
    THEN <<s>>
    ELSE LET i == CHOOSE k \in 1..Len(s) :
                     s[k] = sep /\ \A j \in 1..(k - 1) : s[j] # sep
         IN  <<SubSeq(s, 1, i - 1)>> \o Split(SubSeq(s, i + 1, Len(s)), sep)

RECURSIVE Join(_, _)
Join(ss, sep) ==
    IF ss = <<>> THEN <<>>
    ELSE IF Len(ss) = 1 THEN ss[1]
    ELSE ss[1] \o <<sep>> \o Join(Tail(ss), sep)

StartsWith(s, p) == Len(s) >= Len(p) /\ SubSeq(s, 1, Len(p)) = p

\* the part of s before the first occurrence of c (all of s when c is absent)
Before(s, c) == Split(s, c)[1]

\* the part of s after the first occurrence of c (empty when c is absent)
After(s, c) == SubSeq(s, Len(Before(s, c)) + 2, Len(s))

Has(s, c) == \E i \in 1..Len(s) : s[i] = c

(***************************************************************************)
(* String(value) for the scalar values of RequestOptions.params            *)
(***************************************************************************)
Digit(d) == CASE d = 0 -> "0" [] d = 1 -> "1" [] d = 2 -> "2" [] d = 3 -> "3"
              [] d = 4 -> "4" [] d = 5 -> "5" [] d = 6 -> "6" [] d = 7 -> "7"
              [] d = 8 -> "8" [] d = 9 -> "9"

RECURSIVE Digits(_)
Digits(n) == IF n < 10 THEN <<Digit(n)>> ELSE Digits(n \div 10) \o <<Digit(n % 10)>>

StringOf(v) ==
    CASE v.t = "string"  -> v.s
      [] v.t = "number"  -> IF v.n < 0 THEN <<"-">> \o Digits(0 - v.n) ELSE Digits(v.n)
      [] v.t = "boolean" -> IF v.b THEN <<"t", "r", "u", "e">>
                                   ELSE <<"f", "a", "l", "s", "e">>

StrVal(s) == [t |-> "string",  s |-> s,    n |-> 0, b |-> FALSE]
NumVal(n) == [t |-> "number",  s |-> <<>>, n |-> n, b |-> FALSE]
BoolVal(b) == [t |-> "boolean", s |-> <<>>, n |-> 0, b |-> b]

(***************************************************************************)
(* URLSearchParams: application/x-www-form-urlencoded                      *)
(***************************************************************************)
EncodeChar(c) ==
    CASE c = " " -> <<"+">>
      [] c = "&" -> <<"%", "2", "6">>
      [] c = "=" -> <<"%", "3", "D">>
      [] c = "/" -> <<"%", "2", "F">>
      [] c = "?" -> <<"%", "3", "F">>
      [] c = "#" -> <<"%", "2", "3">>
      [] c = "+" -> <<"%", "2", "B">>
      [] c = "%" -> <<"%", "2", "5">>
      [] OTHER   -> <<c>>

Encode(s) == Flatten([i \in 1..Len(s) |-> EncodeChar(s[i])])

RECURSIVE Decode(_)
Decode(s) ==
    IF s = <<>> THEN <<>>
    ELSE IF s[1] = "+" THEN <<" ">> \o Decode(Tail(s))
    ELSE IF s[1] = "%" /\ Len(s) >= 3
         THEN LET h == SubSeq(s, 2, 3)
                  r == SubSeq(s, 4, Len(s))
              IN  CASE h = <<"2", "6">> -> <<"&">> \o Decode(r)
                    [] h = <<"3", "D">> -> <<"=">> \o Decode(r)
                    [] h = <<"2", "F">> -> <<"/">> \o Decode(r)
                    [] h = <<"3", "F">> -> <<"?">> \o Decode(r)
                    [] h = <<"2", "3">> -> <<"#">> \o Decode(r)
                    [] h = <<"2", "B">> -> <<"+">> \o Decode(r)
                    [] h = <<"2", "5">> -> <<"%">> \o Decode(r)
                    [] OTHER            -> <<"%">> \o Decode(Tail(s))
    ELSE <<s[1]>> \o Decode(Tail(s))

\* the list of name/value pairs of a query string
ParseQuery(q) ==
    LET pieces == SelectSeq(Split(q, "&"), LAMBDA p : p # <<>>)
    IN  [i \in 1..Len(pieces) |->
            <<Decode(Before(pieces[i], "=")), Decode(After(pieces[i], "="))>>]

SerializeQuery(pairs) ==
    Join([i \in 1..Len(pairs) |->
             Encode(pairs[i][1]) \o <<"=">> \o Encode(pairs[i][2])], "&")

(***************************************************************************)
(* new URL(input, base) for a path-absolute input, and url.toString()      *)
(***************************************************************************)
RECURSIVE NormalizePath(_, _)
\* segs: the segments still to read, out: the path built so far
NormalizePath(segs, out) ==
    IF segs = <<>> THEN out
    ELSE LET seg  == Head(segs)
             last == Len(segs) = 1
             shortened == IF out = <<>> THEN out ELSE SubSeq(out, 1, Len(out) - 1)
         IN  IF seg = <<".", ".">>
             THEN NormalizePath(Tail(segs),
                                IF last THEN Append(shortened, <<>>) ELSE shortened)
             ELSE IF seg = <<".">>
             THEN NormalizePath(Tail(segs), IF last THEN Append(out, <<>>) ELSE out)
             ELSE NormalizePath(Tail(segs), Append(out, seg))

SerializePath(segs) == Flatten([i \in 1..Len(segs) |-> <<"/">> \o segs[i]])

\* the record of a parsed URL; hasQuery/hasFragment tell null from empty
ParseUrl(input, b) ==
    LET beforeFrag == Before(input, "#")
        pathPart   == Before(beforeFrag, "?")
    IN  [origin      |-> b.origin,
         path        |-> NormalizePath(Split(Tail(pathPart), "/"), <<>>),
         hasQuery    |-> Has(beforeFrag, "?"),
         query       |-> After(beforeFrag, "?"),
         hasFragment |-> Has(input, "#"),
         fragment    |-> After(input, "#")]

UrlToString(u) ==
    <<u.origin>> \o SerializePath(u.path)
       \o (IF u.hasQuery THEN <<"?">> \o u.query ELSE <<>>)
       \o (IF u.hasFragment THEN <<"#">> \o u.fragment ELSE <<>>)

\* url.searchParams.append for each entry, in the order of Object.entries
AppendParams(u, params) ==
    IF params = <<>> THEN u
    ELSE LET list == ParseQuery(u.query)
                       \o [i \in 1..Len(params) |->
                              <<params[i][1], StringOf(params[i][2])>>]
         IN  [u EXCEPT !.hasQuery = TRUE, !.query = SerializeQuery(list)]

ApiPrefix == <<"/", "a", "p", "i">>

InvalidUrl == [threw |-> TRUE, url |-> <<>>]

\* the same without the form encoding of names and values
BuildUrlRaw(endpoint, params, b) ==
    IF ~b.valid THEN InvalidUrl
    ELSE LET u == ParseUrl(ApiPrefix \o endpoint, b)
             q == Join([i \in 1..Len(params) |->
                          params[i][1] \o <<"=">> \o StringOf(params[i][2])], "&")
         IN  [threw |-> FALSE,
              url   |-> UrlToString(IF params = <<>> THEN u
                                    ELSE [u EXCEPT !.hasQuery = TRUE, !.query = q])]

\* buildUrl(endpoint, params): threw is the TypeError of new URL
BuildUrl(endpoint, params, b) ==
    IF ~b.valid THEN InvalidUrl
    ELSE [threw |-> FALSE,
          url   |-> UrlToString(AppendParams(ParseUrl(ApiPrefix \o endpoint, b), params))]

(***************************************************************************)
(* API_BASE_URL: the environment value, else 'http://practice.local'       *)
(***************************************************************************)
DefaultBase == [valid |-> TRUE,  origin |-> "http://practice.local",  path |-> <<>>]
PathBase == [valid |-> TRUE,  origin |-> "http://localhost:3001",
                path |-> <<"/", "v", "1">>]
BadBase == [valid |-> FALSE, origin |-> "practice.local",         path |-> <<>>]
Bases == {DefaultBase, PathBase, BadBase}

\* the configured base address as text
BaseString(b) == <<b.origin>> \o b.path

(***************************************************************************)
(* Headers: records of header name -> value, as JavaScript objects         *)
(***************************************************************************)
NoHeaders == [n \in {} |-> ""]

\* { ...a, ...b }
Spread(a, b) ==
    [n \in (DOMAIN a) \cup (DOMAIN b) |-> IF n \in DOMAIN b THEN b[n] ELSE a[n]]

\* delete h[name]
DeleteKey(h, name) == [n \in (DOMAIN h) \ {name} |-> h[n]]

NoToken == "<null>"
Tokens == {"tok1", "tok2"}

\* localStorage.getItem('authToken') behind the typeof window test
StoredToken(tok, win) == IF win THEN tok ELSE NoToken

\* the same with the defaults spread over the caller's headers
GetDefaultHeadersDefaultsLast(customHeaders, tok, win) ==
    LET token == StoredToken(tok, win)
        headers == Spread(customHeaders,
                          [n \in {"Content-Type"} |-> "application/json"])
    IN  IF token # NoToken /\ token # ""
        THEN Spread(headers, [n \in {"Authorization"} |-> "Bearer " \o token])
        ELSE headers

\* getDefaultHeaders(customHeaders)
GetDefaultHeaders(customHeaders, tok, win) ==
    LET token == StoredToken(tok, win)
        headers == Spread([n \in {"Content-Type"} |-> "application/json"],
                          customHeaders)
    IN  IF token # NoToken /\ token # ""
        THEN Spread(headers, [n \in {"Authorization"} |-> "Bearer " \o token])
        ELSE headers

\* the same without the removal of Content-Type
UploadHeadersKeep(customHeaders, tok, win) ==
    GetDefaultHeaders(customHeaders, tok, win)

\* uploadHeaders of FetchApi.upload
UploadHeaders(customHeaders, tok, win) ==
    DeleteKey(GetDefaultHeaders(customHeaders, tok, win), "Content-Type")

(***************************************************************************)
(* Response payloads and errors                                            *)
(***************************************************************************)
\* a payload; message = Undefined when the payload has no message field
Body(m) == [present |-> TRUE, message |-> m]
NoData == [present |-> FALSE, message |-> Undefined]

Messages == {Undefined, "", "not found"}
ErrorBodies == {Body(m) : m \in Messages}
SuccessBodies == {Body("A"), Body("B")}
SuccessStatuses == {200}
ErrorStatuses == {404, 500}
SetupMessages == {"", "Request failed to set up"}

NoStatus == 0 - 1
NoError == [name |-> "none", message |-> "", status |-> NoStatus, data |-> NoData]

\* new ApiError(message, status, data)
ApiError(message, status, data) ==
    [name |-> "ApiError", message |-> message, status |-> status, data |-> data]

\* an exception that is not an ApiError
PlainError(name, message) ==
    [name |-> name, message |-> message, status |-> NoStatus, data |-> NoData]

InvalidUrlError == PlainError("TypeError", "Invalid URL")
NoWindowError == PlainError("ReferenceError", "window is not defined")
UnsupportedMethodError(method) == PlainError("Error", "Unsupported method: " \o method \o " ")

\* what the catch block receives: an AxiosError or any other exception
\*   kind "response": error.response set;  "request": only error.request set;
\*   "other": neither (axios set-up failure or a non-axios exception)
Caught(kind, status, data, message) ==
    [kind |-> kind, status |-> status, data |-> data, message |-> message]

CaughtException(e) == Caught("other", NoStatus, NoData, e.message)

\* the same passing the error through when there is no response
HandleAxiosErrorResponseOnly(error) ==
    IF error.kind = "response"
    THEN ApiError(IF error.data.message # Undefined /\ error.data.message # ""
                  THEN error.data.message
                  ELSE "HTTP error! status: " \o ToString(error.status) \o " ",
                  error.status, error.data)
    ELSE PlainError("AxiosError", error.message)

\* handleAxiosError(error): the ApiError it throws
HandleAxiosError(error) ==
    IF error.kind = "response"
    THEN ApiError(IF error.data.message # Undefined /\ error.data.message # ""
                  THEN error.data.message
                  ELSE "HTTP error! status: " \o ToString(error.status) \o " ",
                  error.status, error.data)
    ELSE IF error.kind = "request"
    THEN ApiError("Network error - no response received", 0, NoData)
    ELSE ApiError(IF error.message # "" THEN error.message
                  ELSE "Unknown error occurred", 0, NoData)

\* handleAxiosResponse(response)
HandleAxiosResponse(response) == response.data

(***************************************************************************)
(* Inputs                                                                  *)
(***************************************************************************)
HeaderValues(n) ==
    CASE n = "Content-Type"  -> {"application/json", "text/plain"}
      [] n = "Authorization" -> {"Basic abc"}
      [] n = "X-Custom"      -> {"1"}
HeaderNames == {"Content-Type", "Authorization", "X-Custom"}

\* options.headers; NoHeaders also stands for an absent options.headers
CallerHeaders ==
    UNION { {h \in [S -> UNION {HeaderValues(n) : n \in HeaderNames}] :
                 \A n \in S : h[n] \in HeaderValues(n)} : S \in SUBSET HeaderNames }

CallEndpoints == { <<"/", "u">> }
NoParams == <<>>

Verbs == {"GET", "POST", "PUT", "PATCH", "DELETE"}
\* what a batch entry may carry at run time
BatchMethods == Verbs \cup {"HEAD"}
BatchHeaders == {NoHeaders}
BatchRequests ==
    UNION { [1..n -> [method : BatchMethods, headers : BatchHeaders]] : n \in 0..MaxBatch }

Filenames == {Undefined, "", "report.pdf"}

EndpointChars == {"/", "u", ".", "?", "#"}
Endpoints == UNION { [1..n -> EndpointChars] : n \in 0..MaxEndpointLen }

ParamKeys == { <<"q">>, <<"k", "=">>, <<"p">> }
ParamValues == { StrVal(<<"a", " ", "&">>), NumVal(42), BoolVal(FALSE) }
\* params in the order of Object.entries; the keys of a mapping are distinct
ParamLists ==
    UNION { {ps \in [1..n -> ParamKeys \X ParamValues] :
                 \A i, j \in 1..n : i # j => ps[i][1] # ps[j][1]} : n \in 0..MaxParams }

(***************************************************************************)
(* Promises of the call                                                    *)
(***************************************************************************)
NoCaught == Caught("none", NoStatus, NoData, "")
NoResponse == [status |-> NoStatus, data |-> NoData]

Idle == [op |-> "idle", state |-> "idle", value |-> <<>>, error |-> NoError,
         filename |-> Undefined]

\* the async verb function up to its await: buildUrl, then the axios call
\* inside try with the headers of the operation
Dispatch(op, method, endpoint, params, custom) ==
    LET u == BuildUrl(endpoint, params, base)
        r == [op |-> op, method |-> method, custom |-> custom,
              token |-> StoredToken(authToken, hasWindow),
              state |-> "pending", issued |-> TRUE, url |-> u.url,
              headers |-> IF op = "upload"
                          THEN UploadHeaders(custom, authToken, hasWindow)
                          ELSE GetDefaultHeaders(custom, authToken, hasWindow),
              caught |-> NoCaught, resp |-> NoResponse, value |-> NoData,
              error |-> NoError]
    IN  IF u.threw
        THEN [r EXCEPT !.state = "rejected", !.issued = FALSE,
                       !.headers = NoHeaders, !.error = InvalidUrlError]
        ELSE r

\* the promise of a call that awaits one member
Single(op, r, filename) ==
    [op |-> op,
     state |-> CASE r.state = "pending"   -> "pending"
                 [] r.state = "fulfilled" -> "resolved"
                 [] r.state = "rejected"  -> "rejected",
     value |-> IF r.state = "fulfilled" THEN <<r.value>> ELSE <<>>,
     error |-> r.error,
     filename |-> filename]

RejectedIn(members, log) == SelectSeq(log, LAMBDA i : members[i].state = "rejected")

\* the same with the values in the order of completion
PromiseAllCompletionOrder(members, log) ==
    LET failed == RejectedIn(members, log)
    IN  IF failed # <<>>
        THEN [Idle EXCEPT !.op = "batch", !.state = "rejected",
                          !.error = members[failed[1]].error]
        ELSE IF \A i \in 1..Len(members) : members[i].state = "fulfilled"
        THEN [Idle EXCEPT !.op = "batch", !.state = "resolved",
                          !.value = [k \in 1..Len(log) |-> members[log[k]].value]]
        ELSE [Idle EXCEPT !.op = "batch", !.state = "pending"]

\* Promise.all(promises): log is the order in which the members settled
PromiseAll(members, log) ==
    LET failed == RejectedIn(members, log)
    IN  IF failed # <<>>
        THEN [Idle EXCEPT !.op = "batch", !.state = "rejected",
                          !.error = members[failed[1]].error]
        ELSE IF \A i \in 1..Len(members) : members[i].state = "fulfilled"
        THEN [Idle EXCEPT !.op = "batch", !.state = "resolved",
                          !.value = [i \in 1..Len(members) |-> members[i].value]]
        ELSE [Idle EXCEPT !.op = "batch", !.state = "pending"]

\* the same swallowing the error
DownloadCatchSwallow(error) == [state |-> "fulfilled", error |-> NoError]

\* the catch block of api.download: handleAxiosError throws out of it
DownloadCatch(error) == [state |-> "rejected", error |-> HandleAxiosError(error)]

\* a.download
SaveName(filename) ==
    IF filename # Undefined /\ filename # "" THEN filename ELSE "download"

(***************************************************************************)
(* Initial state                                                           *)
(***************************************************************************)
NotBuilt == [built |-> FALSE, threw |-> FALSE, url |-> <<>>]
NoUrlIn == [endpoint |-> <<>>, params |-> NoParams]

Init ==
    /\ base \in Bases
    /\ authToken = NoToken
    /\ hasWindow \in BOOLEAN
    /\ call = Idle
    /\ reqs = <<>>
    /\ settleLog = <<>>
    /\ saved = <<>>
    /\ urlIn = NoUrlIn
    /\ urlOut = NotBuilt

(***************************************************************************)
(* The stored token: written by the application between facade calls       *)
(***************************************************************************)
SetToken ==
    /\ call.state = "idle"
    /\ hasWindow
    /\ \E t \in Tokens : authToken' = t
    /\ UNCHANGED <<base, hasWindow, call, reqs, settleLog, saved, urlIn, urlOut>>

ClearToken ==
    /\ call.state = "idle"
    /\ authToken # NoToken
    /\ authToken' = NoToken
    /\ UNCHANGED <<base, hasWindow, call, reqs, settleLog, saved, urlIn, urlOut>>

(***************************************************************************)
(* FetchApi.get, post, put, patch, delete, upload                          *)
(***************************************************************************)
Verb(op, method) ==
    /\ call.state = "idle"
    /\ \E endpoint \in CallEndpoints, custom \in CallerHeaders :
          LET r == Dispatch(op, method, endpoint, NoParams, custom)
          IN  /\ reqs' = <<r>>
              /\ call' = Single(op, r, Undefined)
              /\ settleLog' = IF r.state = "pending" THEN <<>> ELSE <<1>>
    /\ UNCHANGED <<base, authToken, hasWindow, saved, urlIn, urlOut>>

Get == Verb("get", "GET")
Post == Verb("post", "POST")
Put == Verb("put", "PUT")
Patch == Verb("patch", "PATCH")
Delete == Verb("delete", "DELETE")
Upload == Verb("upload", "POST")

(***************************************************************************)
(* FetchApi.batch                                                          *)
(***************************************************************************)
\* the async callback of requests.map
BatchMember(request) ==
    CASE request.method = "GET" ->
            Dispatch("get", "GET", <<"/", "u">>, NoParams, request.headers)
      [] request.method = "POST" ->
            Dispatch("post", "POST", <<"/", "u">>, NoParams, request.headers)
      [] request.method = "PUT" ->
            Dispatch("put", "PUT", <<"/", "u">>, NoParams, request.headers)
      [] request.method = "PATCH" ->
            Dispatch("patch", "PATCH", <<"/", "u">>, NoParams, request.headers)
      [] request.method = "DELETE" ->
            Dispatch("delete", "DELETE", <<"/", "u">>, NoParams, request.headers)
      [] OTHER ->
            [op |-> "unsupported", method |-> request.method,
             custom |-> request.headers,
             token |-> StoredToken(authToken, hasWindow),
             state |-> "rejected", issued |-> FALSE, url |-> <<>>,
             headers |-> NoHeaders, caught |-> NoCaught, resp |-> NoResponse,
             value |-> NoData,
             error |-> UnsupportedMethodError(request.method)]

Indices(members) == [i \in 1..Len(members) |-> i]

\* The members that fail before anything is sent.  The promise of a callback
\* that throws is rejected at once; the promise of a callback that returns the
\* rejected promise of a verb function is rejected some microtasks later.
EarlyFailures(members) ==
    SelectSeq(Indices(members),
              LAMBDA i : members[i].state = "rejected" /\ members[i].op = "unsupported")
      \o SelectSeq(Indices(members),
                   LAMBDA i : members[i].state = "rejected" /\ members[i].op # "unsupported")

Batch ==
    /\ call.state = "idle"
    /\ \E requests \in BatchRequests :
          LET members == [i \in 1..Len(requests) |-> BatchMember(requests[i])]
          IN  /\ reqs' = members
              /\ settleLog' = EarlyFailures(members)
              /\ call' = PromiseAll(members, EarlyFailures(members))
    /\ UNCHANGED <<base, authToken, hasWindow, saved, urlIn, urlOut>>

(***************************************************************************)
(* api.download                                                            *)
(***************************************************************************)
Download ==
    /\ call.state = "idle"
    /\ \E endpoint \in CallEndpoints, filename \in Filenames :
          LET u == BuildUrl(endpoint, NoParams, base)
              r == [op |-> "download", method |-> "GET", custom |-> NoHeaders,
                    token |-> StoredToken(authToken, hasWindow),
                    state |-> "pending", issued |-> TRUE, url |-> u.url,
                    headers |-> NoHeaders,
                    caught |-> NoCaught, resp |-> NoResponse, value |-> NoData,
              error |-> NoError]
              c == DownloadCatch(CaughtException(InvalidUrlError))
              m == IF u.threw
                   THEN [r EXCEPT !.state = c.state, !.issued = FALSE,
                                  !.caught = CaughtException(InvalidUrlError),
                                  !.error = c.error]
                   ELSE r
          IN  /\ reqs' = <<m>>
              /\ call' = Single("download", m, filename)
              /\ settleLog' = IF m.state = "pending" THEN <<>> ELSE <<1>>
    /\ UNCHANGED <<base, authToken, hasWindow, saved, urlIn, urlOut>>

(***************************************************************************)
(* The transport settles the request of member i; the continuation of the  *)
(* await and the promise of the call run in the same step                  *)
(***************************************************************************)
\* the member after its axios promise was fulfilled with response
AfterResponse(r, response) ==
    IF r.op = "download"
    THEN IF hasWindow
         THEN [r EXCEPT !.state = "fulfilled", !.resp = response]
         ELSE LET c == DownloadCatch(CaughtException(NoWindowError))
              IN  [r EXCEPT !.state = c.state, !.error = c.error, !.resp = response,
                            !.caught = CaughtException(NoWindowError)]
    ELSE [r EXCEPT !.state = "fulfilled", !.resp = response,
                   !.value = HandleAxiosResponse(response)]

\* the member after its axios promise was rejected with error
AfterError(r, error) ==
    IF r.op = "download"
    THEN LET c == DownloadCatch(error)
         IN  [r EXCEPT !.state = c.state, !.error = c.error, !.caught = error]
    ELSE [r EXCEPT !.state = "rejected", !.error = HandleAxiosError(error),
                   !.caught = error]

Settle(i, m) ==
    LET members == [reqs EXCEPT ![i] = m]
        log == Append(settleLog, i)
    IN  /\ reqs' = members
        /\ settleLog' = log
        /\ call' = IF call.op = "batch"
                   THEN IF call.state = "pending" THEN PromiseAll(members, log)
                                                  ELSE call
                   ELSE Single(call.op, m, call.filename)
        /\ saved' = IF m.op = "download" /\ m.state = "fulfilled"
                       /\ m.caught = NoCaught
                    THEN Append(saved, SaveName(call.filename))
                    ELSE saved
        /\ UNCHANGED <<base, authToken, hasWindow, urlIn, urlOut>>

InFlight(i) == i \in 1..Len(reqs) /\ reqs[i].state = "pending"

\* a batch is answered from a smaller set of payloads than a single call
ErrorBodiesFor(op) == IF op = "batch" THEN {Body("not found")} ELSE ErrorBodies
ErrorStatusesFor(op) == IF op = "batch" THEN {404} ELSE ErrorStatuses
SetupMessagesFor(op) == IF op = "batch" THEN {""} ELSE SetupMessages

TransportSuccess ==
    \E i \in 1..Len(reqs), status \in SuccessStatuses, data \in SuccessBodies :
        /\ InFlight(i)
        /\ Settle(i, AfterResponse(reqs[i], [status |-> status, data |-> data]))

TransportErrorResponse ==
    \E i \in 1..Len(reqs), status \in ErrorStatusesFor(call.op),
       data \in ErrorBodiesFor(call.op) :
        /\ InFlight(i)
        /\ Settle(i, AfterError(reqs[i], Caught("response", status, data,
                                   "Request failed with status code")))

TransportNoResponse ==
    \E i \in 1..Len(reqs) :
        /\ InFlight(i)
        /\ Settle(i, AfterError(reqs[i], Caught("request", NoStatus, NoData,
                                                "Network Error")))

TransportSetupFailure ==
    \E i \in 1..Len(reqs), message \in SetupMessagesFor(call.op) :
        /\ InFlight(i)
        /\ Settle(i, AfterError(reqs[i], Caught("other", NoStatus, NoData, message)))

\* the caller has taken the outcome of the call
Return ==
    /\ call.state \in {"resolved", "rejected"}
    /\ call' = Idle
    /\ reqs' = <<>>
    /\ settleLog' = <<>>
    /\ saved' = <<>>
    /\ UNCHANGED <<base, authToken, hasWindow, urlIn, urlOut>>

Next ==
    \/ SetToken \/ ClearToken
    \/ Get \/ Post \/ Put \/ Patch \/ Delete \/ Upload
    \/ Batch \/ Download
    \/ TransportSuccess \/ TransportErrorResponse
    \/ TransportNoResponse \/ TransportSetupFailure
    \/ Return

Spec == Init /\ [][Next]_vars

(***************************************************************************)
(* buildUrl applied to bounded endpoints and params                        *)
(***************************************************************************)
InitUrl ==
    /\ base \in Bases
    /\ authToken = NoToken
    /\ hasWindow = TRUE
    /\ call = Idle
    /\ reqs = <<>>
    /\ settleLog = <<>>
    /\ saved = <<>>
    /\ urlIn \in [endpoint : Endpoints, params : ParamLists]
    /\ urlOut = NotBuilt

ApplyBuildUrl ==
    /\ ~urlOut.built
    /\ LET u == BuildUrl(urlIn.endpoint, urlIn.params, base)
       IN  urlOut' = [built |-> TRUE, threw |-> u.threw, url |-> u.url]
    /\ UNCHANGED <<base, authToken, hasWindow, call, reqs, settleLog, saved, urlIn>>

NextUrl == ApplyBuildUrl

SpecUrl == InitUrl /\ [][NextUrl]_vars

(***************************************************************************)
(* Properties                                                              *)
(***************************************************************************)
FacadeOps == {"get", "post", "put", "patch", "delete", "upload", "batch"}
VerbOps == {"get", "post", "put", "patch", "delete", "upload"}
Members == 1..Len(reqs)
Truthy(m) == m # Undefined /\ m # ""

\* C1: whenever a facade operation (get, post, put, patch, delete, upload,
\* batch) has failed, the error the caller observes is an ApiError, whatever
\* the cause, a URL that could not be constructed and an unsupported batch
\* method included.
C1_EveryFailureIsApiError ==
    (call.op \in FacadeOps /\ call.state = "rejected") => call.error.name = "ApiError"

\* C2: a verb operation whose request was answered with a non-success status
\* fails with statusCode = the status, body = the payload received, and
\* message = the payload's message field if it has one, else exactly
\* "HTTP error! status: <status>".
C2_ErrorResponseNormalized ==
    \A i \in Members :
        (reqs[i].op \in VerbOps /\ reqs[i].caught.kind = "response") =>
            /\ reqs[i].state = "rejected"
            /\ reqs[i].error =
                 ApiError(IF reqs[i].caught.data.message # Undefined
                          THEN reqs[i].caught.data.message
                          ELSE "HTTP error! status: " \o ToString(reqs[i].caught.status),
                          reqs[i].caught.status, reqs[i].caught.data)

\* C3: a verb operation (get, post, put, patch, delete, upload) whose request
\* was sent and got no response fails with statusCode 0, the message
\* "Network error - no response received" and no body.
C3_NoResponseNormalized ==
    \A i \in Members :
        (reqs[i].op \in VerbOps /\ reqs[i].caught.kind = "request") =>
            /\ reqs[i].state = "rejected"
            /\ reqs[i].error.name = "ApiError"
            /\ reqs[i].error.status = 0
            /\ reqs[i].error.message = "Network error - no response received"
            /\ reqs[i].error.data = NoData
            /\ call.op # "batch" => (call.state = "rejected" /\ call.error = reqs[i].error)

C3_Witness ==
    /\ call.op \in {"delete", "upload"}
    /\ call.state = "rejected"
    /\ Len(reqs) = 1
    /\ reqs[1].caught.kind = "request"

\* C4: every request issued (verb operations, upload, batch members,
\* download) while a token is stored carries Authorization = "Bearer " + token;
\* with no token stored (or no browser context) it carries an Authorization
\* header only if the caller supplied it.
C4_AuthorizationFollowsToken ==
    \A i \in Members :
        reqs[i].issued =>
            IF reqs[i].token # NoToken
            THEN /\ "Authorization" \in DOMAIN reqs[i].headers
                 /\ reqs[i].headers["Authorization"] = "Bearer " \o reqs[i].token
            ELSE "Authorization" \in DOMAIN reqs[i].headers =>
                     /\ "Authorization" \in DOMAIN reqs[i].custom
                     /\ reqs[i].headers["Authorization"] = reqs[i].custom["Authorization"]

\* the rejected members, in the order they failed
Failures == RejectedIn(reqs, settleLog)

\* C5: as soon as one request of a batch has failed the batch is rejected,
\* with the normalized error of the request that failed first, whatever is
\* still pending; it is resolved exactly when all requests have succeeded.
C5_BatchFailFastNormalized ==
    call.op = "batch" =>
        /\ Failures # <<>> =>
              /\ call.state = "rejected"
              /\ call.error = reqs[Failures[1]].error
              /\ call.error.name = "ApiError"
        /\ call.state = "resolved" <=>
              \A i \in Members : reqs[i].state = "fulfilled"

\* The order part of C5 alone: a batch with a failed request is rejected with
\* whatever the request that failed first was rejected with.
BatchRejectsWithFirstFailure ==
    call.op = "batch" =>
        /\ Failures # <<>> =>
              (call.state = "rejected" /\ call.error = reqs[Failures[1]].error)
        /\ call.state = "resolved" <=>
              \A i \in Members : reqs[i].state = "fulfilled"

\* C6: when every request of a batch has succeeded, the result has the length
\* of the input and result[i] is the decoded response of requests[i], in
\* whatever order the requests completed.
C6_BatchResultInInputOrder ==
    (call.op = "batch" /\ \A i \in Members : reqs[i].state = "fulfilled") =>
        /\ call.state = "resolved"
        /\ Len(call.value) = Len(reqs)
        /\ \A i \in Members : call.value[i] = reqs[i].resp.data

C6_Witness ==
    /\ call.op = "batch"
    /\ call.state = "resolved"
    /\ Len(reqs) = 2
    /\ settleLog = <<2, 1>>
    /\ reqs[1].resp.data # reqs[2].resp.data

\* C7 as claimed: a download call never ends rejected.
C7_DownloadNeverRejects ==
    call.op = "download" => call.state # "rejected"

\* C7 as amended: every failure of download (non-success response, no
\* response, dispatch failure) rejects the download call with the normalized
\* error; on success in a browser context the save-as side effect is
\* triggered with the given file name, or "download".
C7_DownloadRejectsNormalized ==
    call.op = "download" =>
        LET r == reqs[1]
        IN  /\ r.caught # NoCaught =>
                  /\ call.state = "rejected"
                  /\ call.error.name = "ApiError"
                  /\ call.error.status =
                        (IF r.caught.kind = "response" THEN r.caught.status ELSE 0)
                  /\ call.error.data = r.caught.data
                  /\ saved = <<>>
            /\ (r.resp # NoResponse /\ hasWindow) =>
                  /\ call.state = "resolved"
                  /\ saved = << IF Truthy(call.filename) THEN call.filename
                                ELSE "download" >>
            /\ call.state = "resolved" => r.resp # NoResponse

C7_Witness ==
    /\ call.op = "download"
    /\ call.state = "rejected"
    /\ reqs[1].caught.kind = "response"

\* C8 as claimed: in every request issued, each header the caller supplied
\* is sent with the caller's value.
C8_CallerHeadersWin ==
    \A i \in Members :
        reqs[i].issued =>
            \A n \in DOMAIN reqs[i].custom :
                n \in DOMAIN reqs[i].headers /\ reqs[i].headers[n] = reqs[i].custom[n]

\* C8 as amended: each header the caller supplied is sent with the caller's
\* value, overriding the default Content-Type, except Authorization while a
\* token is stored (the token's value is sent) and Content-Type in upload
\* (removed).
C8_CallerHeadersWinExceptToken ==
    \A i \in Members :
        reqs[i].issued =>
            \A n \in DOMAIN reqs[i].custom :
                IF n = "Authorization" /\ reqs[i].token # NoToken
                THEN /\ n \in DOMAIN reqs[i].headers
                     /\ reqs[i].headers[n] = "Bearer " \o reqs[i].token
                ELSE IF n = "Content-Type" /\ reqs[i].op = "upload"
                THEN n \notin DOMAIN reqs[i].headers
                ELSE n \in DOMAIN reqs[i].headers /\ reqs[i].headers[n] = reqs[i].custom[n]

C8_Witness ==
    \E i \in Members :
        /\ reqs[i].issued
        /\ reqs[i].op = "post"
        /\ reqs[i].token # NoToken
        /\ DOMAIN reqs[i].custom = HeaderNames
        /\ reqs[i].custom["Content-Type"] = "text/plain"
        /\ reqs[i].headers["Content-Type"] = "text/plain"

\* the query of a constructed address, and its path with the origin
QueryOf(url) == After(Before(url, "#"), "?")
AddressOf(url) == Before(Before(url, "#"), "?")

Entries(params) == [i \in 1..Len(params) |-> <<params[i][1], StringOf(params[i][2])>>]

\* C9 as claimed: for every endpoint and params for which an address is
\* constructed, it starts with <base-address>/api/ and its query holds one
\* encoded pair per params entry, in order, with the value as a string.
C9_UrlForEveryEndpoint ==
    (urlOut.built /\ ~urlOut.threw) =>
        /\ StartsWith(urlOut.url, BaseString(base) \o ApiPrefix \o <<"/">>)
        /\ ParseQuery(QueryOf(urlOut.url)) = Entries(urlIn.params)

\* an endpoint that is a plain absolute path: no query, no fragment, no dot
\* segment
PlainPath(endpoint) ==
    /\ endpoint # <<>>
    /\ endpoint[1] = "/"
    /\ ~Has(endpoint, "?")
    /\ ~Has(endpoint, "#")
    /\ \A k \in 1..Len(Split(Tail(endpoint), "/")) :
          Split(Tail(endpoint), "/")[k] \notin { <<".">>, <<".", ".">> }

\* C9 as amended: for an endpoint that begins with "/" and is made of
\* "/"-separated segments of unreserved characters, none of them "." or "..",
\* and a base address that is a bare origin, the address is
\* <base-address>/api<endpoint> followed by one encoded pair per params
\* entry, in order, with the value as a string.
C9_UrlForPlainPath ==
    (urlOut.built /\ ~urlOut.threw /\ PlainPath(urlIn.endpoint) /\ base.path = <<>>) =>
        /\ StartsWith(urlOut.url, BaseString(base) \o ApiPrefix \o <<"/">>)
        /\ AddressOf(urlOut.url) = BaseString(base) \o ApiPrefix \o urlIn.endpoint
        /\ ParseQuery(QueryOf(urlOut.url)) = Entries(urlIn.params)
        /\ Len(Split(QueryOf(urlOut.url), "&")) = IF urlIn.params = <<>> THEN 1
                                                  ELSE Len(urlIn.params)

C9_Witness ==
    /\ urlOut.built
    /\ ~urlOut.threw
    /\ base = DefaultBase
    /\ urlIn.endpoint = <<"/", "u", "/">>
    /\ Len(urlIn.params) = 2
    /\ urlIn.params[1] = << <<"k", "=">>, StrVal(<<"a", " ", "&">>) >>
    /\ urlIn.params[2][2] = NumVal(42)

====
